---- MODULE Spec2Model ----
(***************************************************************************)
(* Model of src/git.cc of gitstatus: the query functions RepoState,        *)
(* CountRange, RemoteUrl, Head, Upstream, LocalBranchName and GetRemote.   *)
(* Every call of a query is one action (CountRange: one action for the     *)
(* set-up and one per iteration of its loop).  The calls into the object   *)
(* store (libgit2) are inputs: their return codes and out-values are drawn *)
(* from small sets, or computed from a small reference store / commit DAG. *)
(* C strings are sequences of one-character strings.                       *)
(***************************************************************************)
EXTENDS Integers, Sequences, FiniteSets, TLC

\* fn: the query called; arg: its inputs; lastRc: the last return code of the
\* store; pc, outcome, result: where the call is, how it ended, with what;
\* acquired, released: how often each handle was handed out and freed;
\* guards: the handles ON_SCOPE_EXIT will free; hidden, pending, seen: the
\* revwalk; res: CountRange's counter
VARIABLES fn, pc, outcome, result, arg, lastRc, acquired, released, guards,
          hidden, pending, seen, res

vars == <<fn, pc, outcome, result, arg, lastRc, acquired, released, guards,
          hidden, pending, seen, res>>

----------------------------------------------------------------------------
(* Bounds of the model *)

\* number of commits of the commit DAG
MaxCommits == 4
\* longest tail appended to a reference-name prefix
MaxTail == 3
\* longest remote name and longest URL
MaxRemote == 2
\* largest value git_repository_state is taken to return
MaxMarker == 13

----------------------------------------------------------------------------
(* Return codes and enumerators of the store's interface, as git.cc uses them *)

GIT_OK == 0
GIT_ERROR == -1
GIT_ENOTFOUND == -3
GIT_EAMBIGUOUS == -5
GIT_EINVALIDSPEC == -12
GIT_ITEROVER == -31

GIT_REFERENCE_INVALID == 0
GIT_REFERENCE_DIRECT == 1
GIT_REFERENCE_SYMBOLIC == 2
GIT_REFERENCE_ALL == 3

GIT_ERROR_OS == 2
GIT_ERROR_INVALID == 3
GIT_ERROR_REFERENCE == 4
GIT_ERROR_CONFIG == 7

GIT_REPOSITORY_STATE_NONE == 0
GIT_REPOSITORY_STATE_MERGE == 1
GIT_REPOSITORY_STATE_REVERT == 2
GIT_REPOSITORY_STATE_REVERT_SEQUENCE == 3
GIT_REPOSITORY_STATE_CHERRYPICK == 4
GIT_REPOSITORY_STATE_CHERRYPICK_SEQUENCE == 5
GIT_REPOSITORY_STATE_BISECT == 6
GIT_REPOSITORY_STATE_REBASE == 7
GIT_REPOSITORY_STATE_REBASE_INTERACTIVE == 8
GIT_REPOSITORY_STATE_REBASE_MERGE == 9
GIT_REPOSITORY_STATE_APPLY_MAILBOX == 10
GIT_REPOSITORY_STATE_APPLY_MAILBOX_OR_REBASE == 11

\* a null char pointer (a string no C string equals)
NULL == <<"NULL">>
\* the terminator of a C string
NUL == "NUL"

----------------------------------------------------------------------------
(* Handles a call acquires from the store *)

Handles == {"walk", "remote_name", "remote", "remote_buf", "symbolic", "direct",
            "upstream"}

NoHandles == [h \in Handles |-> 0]

\* the store hands out handle h / the handles hs are freed
Acquire(acq, h) == [acq EXCEPT ![h] = @ + 1]
Free(rel, hs) == [h \in Handles |-> IF h \in hs THEN rel[h] + 1 ELSE rel[h]]

\* ON_SCOPE_EXIT: the registered guards run when the scope is left, on
\* a return as on a throw
ScopeExit(rel, gs) == Free(rel, gs)

----------------------------------------------------------------------------
(* C strings *)

SeqsUpTo(S, n) == UNION {[1..k -> S] : k \in 0..n}

\* the bytes of the string with its terminator
CStr(s) == s \o <<NUL>>
strlen(s) == Len(s)
\* memcmp(a, b, n): 0 iff the first n bytes agree
memcmp(a, b, n) == IF \A i \in 1..n : CStr(a)[i] = CStr(b)[i] THEN 0 ELSE 1
\* the string starting at byte offset k of s (s + k)
Offset(s, k) == SubSeq(s, k + 1, Len(s))
\* strstr(hay, needle): offset of the first occurrence, NoOffset (a null
\* pointer) if there is none
NoOffset == -1
strstr(hay, needle) ==
  LET occ == {k \in 0..(Len(hay) - Len(needle)) :
                SubSeq(hay, k + 1, k + Len(needle)) = needle}
  IN IF occ = {} THEN NoOffset ELSE CHOOSE k \in occ : \A j \in occ : k <= j
\* git__prefixcmp(s, p) = 0
HasPrefix(s, p) == Len(s) >= Len(p) /\ SubSeq(s, 1, Len(p)) = p

kHeadPrefix == <<"r","e","f","s","/","h","e","a","d","s","/">>
\* sizeof(kHeadPrefix) counts the terminator
SizeofHeadPrefix == Len(CStr(kHeadPrefix))
RefsTags == <<"r","e","f","s","/","t","a","g","s","/">>
RefsRemotes == <<"r","e","f","s","/","r","e","m","o","t","e","s","/">>
RefsDir == <<"r","e","f","s","/">>
HeadName == <<"H","E","A","D">>

TailChars == {"a", "o", "/"}
Tails == SeqsUpTo(TailChars, MaxTail)
\* names of direct references
RefNames == {HeadName} \cup
            {p \o t : p \in {kHeadPrefix, RefsTags, RefsRemotes, RefsDir},
                      t \in Tails \ {<<>>}}
\* targets of symbolic references: every cut of the branch prefix, continued
Targets == {SubSeq(kHeadPrefix, 1, k) \o t : k \in 0..Len(kHeadPrefix), t \in Tails}

----------------------------------------------------------------------------
(* RepoState *)

\* RepoState with the case of an interactive rebase missing its return, so
\* that it shares the tag of the case before it
RepoStateSharedTag(state) ==
  CASE state = GIT_REPOSITORY_STATE_NONE -> ""
    [] state = GIT_REPOSITORY_STATE_MERGE -> "merge"
    [] state = GIT_REPOSITORY_STATE_REVERT -> "revert"
    [] state = GIT_REPOSITORY_STATE_REVERT_SEQUENCE -> "revert-seq"
    [] state = GIT_REPOSITORY_STATE_CHERRYPICK -> "cherry"
    [] state = GIT_REPOSITORY_STATE_CHERRYPICK_SEQUENCE -> "cherry-seq"
    [] state = GIT_REPOSITORY_STATE_BISECT -> "bisect"
    [] state \in {GIT_REPOSITORY_STATE_REBASE,
                  GIT_REPOSITORY_STATE_REBASE_INTERACTIVE} -> "rebase"
    [] state = GIT_REPOSITORY_STATE_REBASE_MERGE -> "rebase-m"
    [] state = GIT_REPOSITORY_STATE_APPLY_MAILBOX -> "am"
    [] state = GIT_REPOSITORY_STATE_APPLY_MAILBOX_OR_REBASE -> "am/rebase"
    [] OTHER -> "action"

RepoState(state) ==
  CASE state = GIT_REPOSITORY_STATE_NONE -> ""
    [] state = GIT_REPOSITORY_STATE_MERGE -> "merge"
    [] state = GIT_REPOSITORY_STATE_REVERT -> "revert"
    [] state = GIT_REPOSITORY_STATE_REVERT_SEQUENCE -> "revert-seq"
    [] state = GIT_REPOSITORY_STATE_CHERRYPICK -> "cherry"
    [] state = GIT_REPOSITORY_STATE_CHERRYPICK_SEQUENCE -> "cherry-seq"
    [] state = GIT_REPOSITORY_STATE_BISECT -> "bisect"
    [] state = GIT_REPOSITORY_STATE_REBASE -> "rebase"
    [] state = GIT_REPOSITORY_STATE_REBASE_INTERACTIVE -> "rebase-i"
    [] state = GIT_REPOSITORY_STATE_REBASE_MERGE -> "rebase-m"
    [] state = GIT_REPOSITORY_STATE_APPLY_MAILBOX -> "am"
    [] state = GIT_REPOSITORY_STATE_APPLY_MAILBOX_OR_REBASE -> "am/rebase"
    [] OTHER -> "action"

----------------------------------------------------------------------------
(* LocalBranchName *)

git_reference_is_branch(name) == HasPrefix(name, kHeadPrefix)

git_reference_shorthand(name) ==
  CASE HasPrefix(name, kHeadPrefix) -> Offset(name, Len(kHeadPrefix))
    [] HasPrefix(name, RefsTags) -> Offset(name, Len(RefsTags))
    [] HasPrefix(name, RefsRemotes) -> Offset(name, Len(RefsRemotes))
    [] HasPrefix(name, RefsDir) -> Offset(name, Len(RefsDir))
    [] OTHER -> name

\* how a call ends: a returned value or a thrown Exception, with the handles
\* the call acquired and freed
Return(v, acq, rel) ==
  [outcome |-> "return", value |-> v, acquired |-> acq, released |-> rel]
Throw(acq, rel) ==
  [outcome |-> "throw", value |-> NULL, acquired |-> acq, released |-> rel]

\* VERIFY(cond): goes on when cond holds, throws Exception when it does not
VERIFY(cond, go, thrown) == IF cond THEN go ELSE thrown

\* LocalBranchName comparing the length with <= where the code has <
LocalBranchNameLongerOnly(ref) ==
  CASE ref.type = GIT_REFERENCE_DIRECT ->
         Return(IF git_reference_is_branch(ref.name)
                THEN git_reference_shorthand(ref.name) ELSE <<>>,
                NoHandles, NoHandles)
    [] ref.type = GIT_REFERENCE_SYMBOLIC ->
         IF ref.target = NULL THEN Return(<<>>, NoHandles, NoHandles)
         ELSE IF strlen(ref.target) <= SizeofHeadPrefix
              THEN Return(<<>>, NoHandles, NoHandles)
         ELSE IF memcmp(ref.target, kHeadPrefix, SizeofHeadPrefix - 1) # 0
              THEN Return(<<>>, NoHandles, NoHandles)
         ELSE Return(Offset(ref.target, SizeofHeadPrefix - 1), NoHandles, NoHandles)
    [] OTHER -> Throw(NoHandles, NoHandles)

\* ref = [type, name, target]; target is NULL or a string
LocalBranchName(ref) ==
  CASE ref.type = GIT_REFERENCE_DIRECT ->
         Return(IF git_reference_is_branch(ref.name)
                THEN git_reference_shorthand(ref.name) ELSE <<>>,
                NoHandles, NoHandles)
    [] ref.type = GIT_REFERENCE_SYMBOLIC ->
         IF ref.target = NULL THEN Return(<<>>, NoHandles, NoHandles)
         ELSE IF strlen(ref.target) < SizeofHeadPrefix
              THEN Return(<<>>, NoHandles, NoHandles)
         ELSE IF memcmp(ref.target, kHeadPrefix, SizeofHeadPrefix - 1) # 0
              THEN Return(<<>>, NoHandles, NoHandles)
         ELSE Return(Offset(ref.target, SizeofHeadPrefix - 1), NoHandles, NoHandles)
    [] OTHER -> Throw(NoHandles, NoHandles)

----------------------------------------------------------------------------
(* GetRemote *)

\* git_branch_name: the name after refs/heads/ or refs/remotes/, an error
\* for a reference that is neither a local nor a remote branch
git_branch_name(name) ==
  CASE HasPrefix(name, kHeadPrefix) ->
         [rc |-> GIT_OK, out |-> Offset(name, Len(kHeadPrefix))]
    [] HasPrefix(name, RefsRemotes) ->
         [rc |-> GIT_OK, out |-> Offset(name, Len(RefsRemotes))]
    [] OTHER -> [rc |-> GIT_ERROR, out |-> NULL]

\* the byte at offset k of the C string s
ByteAt(s, k) == CStr(s)[k + 1]

EmptyRemote == [name |-> <<>>, branch |-> <<>>, empty |-> TRUE]

\* GetRemote splitting at the end of the remote's name, not after the "/"
GetRemoteKeepsSlash(name, rn) ==
  LET bn == git_branch_name(name)
      branch == bn.out
      acq == Acquire(NoHandles, "remote_buf")
      gs == {"remote_buf"}
  IN IF bn.rc # 0 THEN Return(EmptyRemote, NoHandles, NoHandles)
     ELSE IF rn.rc # 0 THEN Return(EmptyRemote, NoHandles, NoHandles)
     ELSE VERIFY(strstr(branch, rn.ptr) = 0,
            VERIFY(ByteAt(branch, Len(rn.ptr)) = "/",
              Return([name |-> rn.ptr,
                      branch |-> Offset(branch, Len(rn.ptr)),
                      empty |-> FALSE],
                     acq, ScopeExit(NoHandles, gs)),
              Throw(acq, ScopeExit(NoHandles, gs))),
            Throw(acq, ScopeExit(NoHandles, gs)))

\* name: the reference's name; rn = [rc, ptr]: what git_branch_remote_name
\* gives for it
GetRemote(name, rn) ==
  LET bn == git_branch_name(name)
      branch == bn.out
      acq == Acquire(NoHandles, "remote_buf")
      gs == {"remote_buf"}
  IN IF bn.rc # 0 THEN Return(EmptyRemote, NoHandles, NoHandles)
     ELSE IF rn.rc # 0 THEN Return(EmptyRemote, NoHandles, NoHandles)
     ELSE VERIFY(strstr(branch, rn.ptr) = 0,
            VERIFY(ByteAt(branch, Len(rn.ptr)) = "/",
              Return([name |-> rn.ptr,
                      branch |-> Offset(branch, Len(rn.ptr) + 1),
                      empty |-> FALSE],
                     acq, ScopeExit(NoHandles, gs)),
              Throw(acq, ScopeExit(NoHandles, gs))),
            Throw(acq, ScopeExit(NoHandles, gs)))

----------------------------------------------------------------------------
(* Upstream *)

NullRef == [kind |-> "null"]

\* the process dies on the read through a null pointer
Crash == [outcome |-> "crash", value |-> NULL,
          acquired |-> NoHandles, released |-> NoHandles]

\* Upstream without the VERIFY on the class of the error
UpstreamAllSoft(rc, err) ==
  CASE rc = 0 ->
         Return([kind |-> "ref", handle |-> "upstream"],
                Acquire(NoHandles, "upstream"), NoHandles)
    [] OTHER -> Return(NullRef, NoHandles, NoHandles)

\* rc: what git_branch_upstream returns; err: what git_error_last() gives
\* after it, [null, klass]
Upstream(rc, err) ==
  CASE rc = 0 ->
         Return([kind |-> "ref", handle |-> "upstream"],
                Acquire(NoHandles, "upstream"), NoHandles)
    [] rc = GIT_ENOTFOUND -> Return(NullRef, NoHandles, NoHandles)
    [] OTHER ->
         IF err.null THEN Crash
         ELSE VERIFY(err.klass = GIT_ERROR_INVALID,
                     Return(NullRef, NoHandles, NoHandles),
                     Throw(NoHandles, NoHandles))

----------------------------------------------------------------------------
(* RemoteUrl *)

\* RemoteUrl without the case GIT_EINVALIDSPEC
RemoteUrlNotFoundOnly(nameRc, lookupRc, url) ==
  LET acq1 == Acquire(NoHandles, "remote_name")
      gs == {"remote_name"}
      acq2 == Acquire(acq1, "remote")
  IN IF nameRc # 0 THEN Return(<<>>, NoHandles, NoHandles)
     ELSE CASE lookupRc = 0 ->
                 Return(IF url = NULL THEN <<>> ELSE url,
                        acq2, ScopeExit(Free(NoHandles, {"remote"}), gs))
            [] lookupRc = GIT_ENOTFOUND ->
                 Return(<<>>, acq1, ScopeExit(NoHandles, gs))
            [] OTHER -> Throw(acq1, ScopeExit(NoHandles, gs))

\* RemoteUrl without git_remote_free
RemoteUrlKeepsRemote(nameRc, lookupRc, url) ==
  LET acq1 == Acquire(NoHandles, "remote_name")
      gs == {"remote_name"}
      acq2 == Acquire(acq1, "remote")
  IN IF nameRc # 0 THEN Return(<<>>, NoHandles, NoHandles)
     ELSE CASE lookupRc = 0 ->
                 Return(IF url = NULL THEN <<>> ELSE url,
                        acq2, ScopeExit(NoHandles, gs))
            [] lookupRc \in {GIT_ENOTFOUND, GIT_EINVALIDSPEC} ->
                 Return(<<>>, acq1, ScopeExit(NoHandles, gs))
            [] OTHER -> Throw(acq1, ScopeExit(NoHandles, gs))

\* nameRc: what git_branch_remote_name returns; lookupRc: what
\* git_remote_lookup returns; url: what git_remote_url gives (NULL: none set)
RemoteUrl(nameRc, lookupRc, url) ==
  LET acq1 == Acquire(NoHandles, "remote_name")
      gs == {"remote_name"}
      acq2 == Acquire(acq1, "remote")
  IN IF nameRc # 0 THEN Return(<<>>, NoHandles, NoHandles)
     ELSE CASE lookupRc = 0 ->
                 Return(IF url = NULL THEN <<>> ELSE url,
                        acq2, ScopeExit(Free(NoHandles, {"remote"}), gs))
            [] lookupRc \in {GIT_ENOTFOUND, GIT_EINVALIDSPEC} ->
                 Return(<<>>, acq1, ScopeExit(NoHandles, gs))
            [] OTHER -> Throw(acq1, ScopeExit(NoHandles, gs))

----------------------------------------------------------------------------
(* Head, over a small reference store *)

HEAD == "HEAD"
StoreNames == {HEAD, "refs/heads/main", "refs/heads/dev"}
\* what the store holds under a name
Entries == {[kind |-> "absent"], [kind |-> "corrupt"], [kind |-> "direct"]}
           \cup {[kind |-> "symbolic", target |-> t] : t \in StoreNames}
\* whether following the links from name for at most n steps leaves the
\* symbolic references
RECURSIVE ChainEndsWithin(_, _, _)
ChainEndsWithin(store, name, n) ==
  \/ store[name].kind # "symbolic"
  \/ n > 0 /\ ChainEndsWithin(store, store[name].target, n - 1)
\* the stores of a repository: symbolic references form no cycle
Stores == {store \in [StoreNames -> Entries] :
             \A name \in StoreNames :
               ChainEndsWithin(store, name, Cardinality(StoreNames))}

\* the store follows at most this many symbolic links
MAX_NESTING_LEVEL == 10

\* git_reference_lookup(&out, repo, name)
git_reference_lookup(store, name) ==
  LET e == store[name]
  IN CASE e.kind = "absent" -> [rc |-> GIT_ENOTFOUND, ref |-> NullRef]
       [] e.kind = "corrupt" -> [rc |-> GIT_ERROR, ref |-> NullRef]
       [] e.kind = "direct" ->
            [rc |-> GIT_OK,
             ref |-> [kind |-> "ref", name |-> name,
                      type |-> GIT_REFERENCE_DIRECT, target |-> name]]
       [] OTHER ->
            [rc |-> GIT_OK,
             ref |-> [kind |-> "ref", name |-> name,
                      type |-> GIT_REFERENCE_SYMBOLIC, target |-> e.target]]

\* follows the symbolic chain from name, nesting links deep at most
RECURSIVE lookup_resolved(_, _, _)
lookup_resolved(store, name, nesting) ==
  LET l == git_reference_lookup(store, name)
  IN IF l.rc # 0 THEN l
     ELSE IF l.ref.type = GIT_REFERENCE_DIRECT THEN l
     ELSE IF nesting = 0 THEN [rc |-> GIT_ERROR, ref |-> NullRef]
     ELSE lookup_resolved(store, l.ref.target, nesting - 1)

\* git_reference_resolve(&out, ref)
git_reference_resolve(store, ref) ==
  IF ref.type = GIT_REFERENCE_DIRECT
  THEN git_reference_lookup(store, ref.name)
  ELSE lookup_resolved(store, ref.target, MAX_NESTING_LEVEL)

\* Head taking a failed resolution for a fatal error
ResolveHeadStrict(store) ==
  LET l == git_reference_lookup(store, HEAD)
      symbolic == l.ref
      acq1 == Acquire(NoHandles, "symbolic")
      r == git_reference_resolve(store, symbolic)
      direct == r.ref
  IN CASE l.rc = 0 ->
            IF r.rc # 0
            THEN Throw(acq1, Free(NoHandles, {"symbolic"}))
            ELSE Return([ref |-> direct, handle |-> "direct"],
                        Acquire(acq1, "direct"), Free(NoHandles, {"symbolic"}))
       [] l.rc = GIT_ENOTFOUND ->
            Return([ref |-> NullRef, handle |-> "none"], NoHandles, NoHandles)
       [] OTHER -> Throw(NoHandles, NoHandles)

ResolveHead(store) ==
  LET l == git_reference_lookup(store, HEAD)
      symbolic == l.ref
      acq1 == Acquire(NoHandles, "symbolic")
      r == git_reference_resolve(store, symbolic)
      direct == r.ref
  IN CASE l.rc = 0 ->
            IF r.rc # 0
            THEN Return([ref |-> symbolic, handle |-> "symbolic"], acq1, NoHandles)
            ELSE Return([ref |-> direct, handle |-> "direct"],
                        Acquire(acq1, "direct"), Free(NoHandles, {"symbolic"}))
       [] l.rc = GIT_ENOTFOUND ->
            Return([ref |-> NullRef, handle |-> "none"], NoHandles, NoHandles)
       [] OTHER -> Throw(NoHandles, NoHandles)

----------------------------------------------------------------------------
(* CountRange, over a commit DAG *)

Commits == 1..MaxCommits
\* an endpoint of the range that names no commit
NoCommit == 0
\* the DAGs: every parent of a commit is an older commit
RECURSIVE GraphsOn(_)
GraphsOn(n) ==
  IF n = 0 THEN {<<>>}
  ELSE {Append(g, ps) : g \in GraphsOn(n - 1), ps \in SUBSET (1..(n - 1))}
Graphs == GraphsOn(MaxCommits)

\* the walk marks every commit reachable from the hidden ones uninteresting
RECURSIVE mark_uninteresting(_, _, _)
mark_uninteresting(parents, todo, marked) ==
  IF todo = {} THEN marked
  ELSE LET c == CHOOSE x \in todo : TRUE
       IN mark_uninteresting(parents,
                             (todo \ {c}) \cup (parents[c] \ (marked \cup {c})),
                             marked \cup {c})

\* git_revwalk_push_range on exclude..include: exclude and all it reaches
\* are hidden, include is pushed
git_revwalk_push_range(parents, exclude, include) ==
  LET hid == mark_uninteresting(parents, {exclude}, {})
  IN [hidden |-> hid, pending |-> {include} \ hid]

\* git_revwalk_next yielding the pending commit c: c is marked seen and its
\* parents that are neither hidden nor seen become pending
git_revwalk_next(parents, hid, pend, sn, c) ==
  [pending |-> (pend \ {c}) \cup (parents[c] \ (hid \cup sn \cup {c})),
   seen |-> sn \cup {c}]

\* the loop counting before it looks at the return code
CountRangeNextCountsAll(rc, n) ==
  CASE rc = 0 -> [next |-> "loop", res |-> n + 1]
    [] rc = GIT_ITEROVER -> [next |-> "return", res |-> n + 1]
    [] OTHER -> [next |-> "throw", res |-> n + 1]

\* the loop taking every code but 0 for the end of the walk
CountRangeNextNoDefault(rc, n) ==
  CASE rc = 0 -> [next |-> "loop", res |-> n + 1]
    [] OTHER -> [next |-> "return", res |-> n]

\* the body of the loop: rc is what git_revwalk_next returned
CountRangeNext(rc, n) ==
  CASE rc = 0 -> [next |-> "loop", res |-> n + 1]
    [] rc = GIT_ITEROVER -> [next |-> "return", res |-> n]
    [] OTHER -> [next |-> "throw", res |-> n]

\* the set-up before the loop: newRc is what git_revwalk_new returned,
\* pushRc what git_revwalk_push_range returned
CountRangeSetup(newRc, pushRc) ==
  LET acq == Acquire(NoHandles, "walk")
      gs == {"walk"}
  IN VERIFY(newRc = 0,
       VERIFY(pushRc = 0,
         [next |-> "loop", acquired |-> acq, released |-> NoHandles, guards |-> gs],
         [next |-> "throw", acquired |-> acq,
          released |-> ScopeExit(NoHandles, gs), guards |-> {}]),
       [next |-> "throw", acquired |-> NoHandles, released |-> NoHandles,
        guards |-> {}])

----------------------------------------------------------------------------
(* Inputs of the calls *)

Refs == {[type |-> GIT_REFERENCE_DIRECT, name |-> n, target |-> NULL] : n \in RefNames}
        \cup {[type |-> GIT_REFERENCE_SYMBOLIC, name |-> HeadName, target |-> t] :
                t \in Targets \cup {NULL}}
        \cup {[type |-> ty, name |-> HeadName, target |-> NULL] :
                ty \in {GIT_REFERENCE_INVALID, GIT_REFERENCE_ALL}}

RemoteNames == SeqsUpTo(TailChars, MaxRemote)
Urls == SeqsUpTo(TailChars, MaxRemote)

\* what git_branch_remote_name gives
RemoteNameResults ==
  {[rc |-> c, ptr |-> NULL] : c \in {GIT_ENOTFOUND, GIT_ERROR, GIT_EAMBIGUOUS}}
  \cup {[rc |-> GIT_OK, ptr |-> r] : r \in RemoteNames}

FailureCodes == {GIT_ERROR, GIT_ENOTFOUND, GIT_EAMBIGUOUS, GIT_EINVALIDSPEC}

\* what git_error_last() gives
LastErrors ==
  {[null |-> TRUE, klass |-> 0]}
  \cup {[null |-> FALSE, klass |-> k] :
          k \in {GIT_ERROR_OS, GIT_ERROR_INVALID, GIT_ERROR_REFERENCE, GIT_ERROR_CONFIG}}

----------------------------------------------------------------------------
(* The state machine: a call starts when no call is running *)

Init ==
  /\ fn = "none" /\ pc = "idle" /\ outcome = "none" /\ result = NULL
  /\ arg = [none |-> TRUE] /\ lastRc = GIT_OK
  /\ acquired = NoHandles /\ released = NoHandles /\ guards = {}
  /\ hidden = {} /\ pending = {} /\ seen = {} /\ res = 0

Idle == pc = "idle"

NoWalk == hidden' = {} /\ pending' = {} /\ seen' = {} /\ res' = 0

\* the call f(a) ran to its end r
Finish(f, a, code, r) ==
  /\ fn' = f /\ arg' = a /\ lastRc' = code /\ pc' = "done"
  /\ outcome' = r.outcome /\ result' = r.value
  /\ acquired' = r.acquired /\ released' = r.released /\ guards' = {}
  /\ NoWalk

CallRepoState ==
  /\ Idle
  /\ \E state \in -1..MaxMarker :
       Finish("RepoState", [state |-> state], GIT_OK,
              Return(RepoState(state), NoHandles, NoHandles))

CallLocalBranchName ==
  /\ Idle
  /\ \E ref \in Refs : Finish("LocalBranchName", ref, GIT_OK, LocalBranchName(ref))

CallGetRemote ==
  /\ Idle
  /\ \E name \in RefNames, rn \in RemoteNameResults :
       Finish("GetRemote", [name |-> name, rn |-> rn], rn.rc, GetRemote(name, rn))

CallUpstream ==
  /\ Idle
  /\ \E code \in FailureCodes \cup {GIT_OK}, err \in LastErrors :
       Finish("Upstream", [err |-> err], code, Upstream(code, err))

CallRemoteUrl ==
  /\ Idle
  /\ \E nameRc \in {GIT_OK, GIT_ENOTFOUND, GIT_ERROR, GIT_EAMBIGUOUS},
        lookupRc \in FailureCodes \cup {GIT_OK},
        url \in Urls \cup {NULL} :
       Finish("RemoteUrl", [nameRc |-> nameRc, url |-> url], lookupRc,
              RemoteUrl(nameRc, lookupRc, url))

CallHead ==
  /\ Idle
  /\ \E store \in Stores :
       Finish("Head", [store |-> store], GIT_OK, ResolveHead(store))

\* CountRange up to its loop; the range is exclude..include
CountRangeBegin ==
  /\ Idle
  /\ \E parents \in Graphs, exclude \in Commits \cup {NoCommit},
        include \in Commits \cup {NoCommit},
        newRc \in {GIT_OK, GIT_ERROR}, pushFails \in BOOLEAN :
       LET pushRc == IF exclude = NoCommit \/ include = NoCommit \/ pushFails
                     THEN GIT_ERROR ELSE GIT_OK
           s == CountRangeSetup(newRc, pushRc)
           w == git_revwalk_push_range(parents, exclude, include)
       IN /\ fn' = "CountRange"
          /\ arg' = [parents |-> parents, exclude |-> exclude, include |-> include]
          /\ lastRc' = IF newRc # 0 THEN newRc ELSE pushRc
          /\ acquired' = s.acquired /\ released' = s.released /\ guards' = s.guards
          /\ result' = NULL /\ res' = 0 /\ seen' = {}
          /\ IF s.next = "loop"
             THEN /\ pc' = "loop" /\ outcome' = "none"
                  /\ hidden' = w.hidden /\ pending' = w.pending
             ELSE /\ pc' = "done" /\ outcome' = "throw"
                  /\ hidden' = {} /\ pending' = {}

\* one turn of the loop, git_revwalk_next having returned code
CountRangeTurn(code) ==
  LET s == CountRangeNext(code, res)
  IN /\ lastRc' = code /\ res' = s.res
     /\ UNCHANGED <<fn, arg, acquired, hidden>>
     /\ IF s.next = "loop"
        THEN /\ pc' = "loop" /\ outcome' = "none" /\ result' = NULL
             /\ UNCHANGED <<released, guards>>
        ELSE /\ pc' = "done" /\ outcome' = s.next
             /\ result' = IF s.next = "return" THEN <<s.res>> ELSE NULL
             /\ released' = ScopeExit(released, guards) /\ guards' = {}

\* the walk yields a commit it has not yielded and is not hidden
CountRangeCommit ==
  /\ pc = "loop"
  /\ \E c \in pending :
       LET w == git_revwalk_next(arg.parents, hidden, pending, seen, c)
       IN /\ pending' = w.pending /\ seen' = w.seen
          /\ CountRangeTurn(GIT_OK)

\* the walk has no commit left
CountRangeOver ==
  /\ pc = "loop" /\ pending = {}
  /\ UNCHANGED <<pending, seen>>
  /\ CountRangeTurn(GIT_ITEROVER)

\* the walk fails
CountRangeFail ==
  /\ pc = "loop"
  /\ UNCHANGED <<pending, seen>>
  /\ CountRangeTurn(GIT_ERROR)

\* the caller has the result; the next query starts afresh
CallEnds ==
  /\ pc = "done"
  /\ fn' = "none" /\ pc' = "idle" /\ outcome' = "none" /\ result' = NULL
  /\ arg' = [none |-> TRUE] /\ lastRc' = GIT_OK
  /\ acquired' = NoHandles /\ released' = NoHandles /\ guards' = {}
  /\ NoWalk

Next ==
  \/ CallEnds
  \/ CallRepoState
  \/ CallLocalBranchName
  \/ CallGetRemote
  \/ CallUpstream
  \/ CallRemoteUrl
  \/ CallHead
  \/ CountRangeBegin
  \/ CountRangeCommit
  \/ CountRangeOver
  \/ CountRangeFail

Spec == Init /\ [][Next]_vars


----------------------------------------------------------------------------
(* Properties *)

\* the commits reachable from c over parent edges, c among them
RECURSIVE AncestorsOf(_, _)
AncestorsOf(parents, c) ==
  {c} \cup UNION {AncestorsOf(parents, p) : p \in parents[c]}

RangeOf(a) == AncestorsOf(a.parents, a.include) \ AncestorsOf(a.parents, a.exclude)

\* C1: whenever CountRange returns, on any DAG and any two resolvable
\* endpoints, it returns the number of distinct commits that are include or
\* one of its ancestors and are neither exclude nor one of its ancestors.
C1_CountIsSetDifference ==
  (fn = "CountRange" /\ outcome = "return")
    => result = <<Cardinality(RangeOf(arg))>>

\* C1 witness: a returned count of 2 on a DAG where a commit of the include
\* side is reached over two merge paths and is also reachable from exclude.
C1_Witness ==
  /\ fn = "CountRange" /\ outcome = "return" /\ result = <<2>>
  /\ arg.include # arg.exclude
  /\ \E c \in AncestorsOf(arg.parents, arg.include) \cap
              AncestorsOf(arg.parents, arg.exclude) :
       Cardinality({d \in AncestorsOf(arg.parents, arg.include) :
                      c \in arg.parents[d]}) >= 2

\* the tag documented for each of the twelve markers, in the order of the
\* enumeration
DocumentedTags ==
  <<"", "merge", "revert", "revert-seq", "cherry", "cherry-seq", "bisect",
    "rebase", "rebase-i", "rebase-m", "am", "am/rebase">>

DefinedMarkers == 0..(Len(DocumentedTags) - 1)

\* C2: RepoState always returns; a defined marker gives its documented tag,
\* which no other defined marker gives, and any other value gives "action".
C2_RepoStateTotal ==
  fn = "RepoState" =>
    /\ outcome = "return"
    /\ result = IF arg.state \in DefinedMarkers
                THEN DocumentedTags[arg.state + 1] ELSE "action"
    /\ \A m \in DefinedMarkers : m # arg.state => RepoState(m) # result

\* C2 witness: the marker of an interactive rebase was classified.
C2_Witness ==
  /\ fn = "RepoState" /\ arg.state = GIT_REPOSITORY_STATE_REBASE_INTERACTIVE
  /\ result = "rebase-i"

\* C9: CountRange returns only after the walk reported GIT_ITEROVER; a
\* failure of the walk ends it with a throw and no count, also after commits
\* were counted; a range with an unresolvable endpoint throws with nothing
\* counted.
C9_NoCountOnFailure ==
  fn = "CountRange" =>
    /\ outcome = "return" => lastRc = GIT_ITEROVER
    /\ (pc = "done" /\ lastRc \notin {GIT_OK, GIT_ITEROVER})
         => (outcome = "throw" /\ result = NULL)
    /\ (arg.exclude = NoCommit \/ arg.include = NoCommit)
         => (pc = "done" /\ outcome = "throw" /\ res = 0 /\ seen = {})

\* C9 witness: the walk failed after two commits were counted.
C9_Witness ==
  /\ fn = "CountRange" /\ pc = "done" /\ outcome = "throw"
  /\ lastRc = GIT_ERROR /\ res = 2 /\ Cardinality(seen) = 2


\* the chains of names the store links from HEAD on
ChainsFromHead(store) ==
  {p \in SeqsUpTo(StoreNames, Cardinality(StoreNames)) :
     /\ Len(p) >= 1 /\ p[1] = HEAD
     /\ \A i \in 1..(Len(p) - 1) :
          store[p[i]].kind = "symbolic" /\ store[p[i]].target = p[i + 1]}

\* the names a chain from HEAD ends at that the store holds as kind
ChainEnds(store, kind) ==
  {p[Len(p)] : p \in {q \in ChainsFromHead(store) : store[q[Len(q)]].kind = kind}}

\* what the store has for HEAD: absent, resolved (to a direct reference),
\* unborn (symbolic, the chain ends at a name the store does not hold), or
\* error (an unreadable reference at HEAD or on the chain)
HeadCase(store) ==
  CASE store[HEAD].kind = "absent" -> "absent"
    [] ChainEnds(store, "direct") # {} -> "resolved"
    [] store[HEAD].kind = "symbolic" /\ ChainEnds(store, "absent") # {} -> "unborn"
    [] OTHER -> "error"

\* C3: with no HEAD Head returns None without throwing; a HEAD that resolves
\* gives the direct reference at the end of its chain, a direct HEAD itself;
\* a symbolic HEAD of an unborn branch gives the symbolic HEAD itself.
C3_HeadSoftOutcomes ==
  fn = "Head" =>
    LET store == arg.store
        c == HeadCase(store)
    IN /\ c = "absent" => (outcome = "return" /\ result.ref = NullRef)
       /\ c = "resolved" =>
            /\ outcome = "return"
            /\ result.ref.kind = "ref" /\ result.ref.type = GIT_REFERENCE_DIRECT
            /\ result.ref.name \in ChainEnds(store, "direct")
       /\ store[HEAD].kind = "direct" =>
            (outcome = "return" /\ result.ref.name = HEAD
             /\ result.ref = git_reference_lookup(store, HEAD).ref)
       /\ c = "unborn" =>
            /\ outcome = "return"
            /\ result.ref = [kind |-> "ref", name |-> HEAD,
                             type |-> GIT_REFERENCE_SYMBOLIC,
                             target |-> store[HEAD].target]

\* C3 witness: HEAD names a branch that no reference exists for yet, and
\* Head returned the symbolic HEAD.
C3_Witness ==
  /\ fn = "Head" /\ outcome = "return"
  /\ arg.store[HEAD] = [kind |-> "symbolic", target |-> "refs/heads/main"]
  /\ arg.store["refs/heads/main"].kind = "absent"
  /\ result.ref.type = GIT_REFERENCE_SYMBOLIC /\ result.handle = "symbolic"

\* C4: an error of the store other than an absent HEAD and an unborn
\* branch, at the lookup of HEAD or on the symbolic chain, makes Head throw.
C4_OtherErrorsFatal ==
  (fn = "Head" /\ HeadCase(arg.store) = "error") => outcome = "throw"

\* the strings t with s = p \o t
SuffixesAfter(s, p) ==
  {t \in {SubSeq(s, k, Len(s)) : k \in 1..(Len(s) + 1)} : p \o t = s}

\* the part of s after "refs/heads/", the empty string for an s that does not
\* begin with it
BranchPart(s) ==
  IF SuffixesAfter(s, kHeadPrefix) = {} THEN <<>>
  ELSE CHOOSE t \in SuffixesAfter(s, kHeadPrefix) : TRUE

\* C5: LocalBranchName gives for a direct reference the name after
\* refs/heads/ if it is a branch and "" if not; for a symbolic reference the
\* part of the target after refs/heads/, "" for a missing target or one that
\* does not begin with it; for any other kind it throws.
C5_LocalBranchName ==
  fn = "LocalBranchName" =>
    CASE arg.type = GIT_REFERENCE_DIRECT ->
           outcome = "return" /\ result = BranchPart(arg.name)
      [] arg.type = GIT_REFERENCE_SYMBOLIC ->
           /\ outcome = "return"
           /\ result = IF arg.target = NULL THEN <<>> ELSE BranchPart(arg.target)
      [] OTHER -> outcome = "throw"

\* C5 witness: a symbolic reference to a branch with a name of one character.
C5_Witness ==
  /\ fn = "LocalBranchName" /\ arg.type = GIT_REFERENCE_SYMBOLIC
  /\ arg.target = kHeadPrefix \o <<"a">>
  /\ outcome = "return" /\ result = <<"a">>


\* the name a branch reference tracks: its name after refs/heads/ or
\* refs/remotes/; no such name for a reference that is not a branch
TrackedNames(name) ==
  SuffixesAfter(name, kHeadPrefix) \cup SuffixesAfter(name, RefsRemotes)

\* C6: a result of GetRemote that is not empty has remote name + "/" +
\* branch name equal to the tracked name of the branch; a tracked name that
\* does not begin with the remote name and "/" makes GetRemote throw; a
\* reference that is no branch, or has no remote name, gives the empty result.
C6_GetRemoteReconstructs ==
  fn = "GetRemote" =>
    LET rn == arg.rn
        tracked == TrackedNames(arg.name)
    IN /\ (outcome = "return" /\ ~result.empty) =>
            /\ result.name = rn.ptr
            /\ result.name \o <<"/">> \o result.branch \in tracked
       /\ (tracked # {} /\ rn.rc = 0) =>
            \A full \in tracked :
              IF SuffixesAfter(full, rn.ptr \o <<"/">>) = {}
              THEN outcome = "throw"
              ELSE outcome = "return" /\ ~result.empty
       /\ (tracked = {} \/ rn.rc # 0) => (outcome = "return" /\ result = EmptyRemote)

\* C6 witness: refs/remotes/o/a with the remote o gave {o, a}.
C6_Witness ==
  /\ fn = "GetRemote" /\ outcome = "return"
  /\ arg.name = RefsRemotes \o <<"o", "/", "a">>
  /\ result = [name |-> <<"o">>, branch |-> <<"a">>, empty |-> FALSE]

\* C7: Upstream returns the upstream reference on success, None when no
\* upstream is configured, None on a failure of the class "invalid", and
\* does not return on any other failure.
C7_UpstreamOutcomes ==
  fn = "Upstream" =>
    CASE lastRc = GIT_OK ->
           outcome = "return" /\ result.kind = "ref" /\ acquired["upstream"] = 1
      [] lastRc = GIT_ENOTFOUND -> outcome = "return" /\ result = NullRef
      [] ~arg.err.null /\ arg.err.klass = GIT_ERROR_INVALID ->
           outcome = "return" /\ result = NullRef
      [] OTHER ->
           IF arg.err.null THEN outcome \in {"throw", "crash"} ELSE outcome = "throw"

\* C7 witness: the lookup failed with an error of another class and
\* Upstream threw.
C7_Witness ==
  /\ fn = "Upstream" /\ lastRc = GIT_ERROR
  /\ arg.err = [null |-> FALSE, klass |-> GIT_ERROR_REFERENCE]
  /\ outcome = "throw"

\* C8: RemoteUrl returns "" when the branch has no remote name, when the
\* remote is not found, when its name is no valid remote name and when it
\* has no URL; it returns the URL of a remote found with one; it throws
\* exactly when the lookup of the remote fails with another code.
C8_RemoteUrlOutcomes ==
  fn = "RemoteUrl" =>
    CASE arg.nameRc # GIT_OK -> outcome = "return" /\ result = <<>>
      [] lastRc \in {GIT_ENOTFOUND, GIT_EINVALIDSPEC} ->
           outcome = "return" /\ result = <<>>
      [] lastRc = GIT_OK /\ arg.url = NULL -> outcome = "return" /\ result = <<>>
      [] lastRc = GIT_OK -> outcome = "return" /\ result = arg.url
      [] OTHER -> outcome = "throw"

\* C8 witness: the remote's name was no valid remote name and RemoteUrl
\* returned "".
C8_Witness ==
  /\ fn = "RemoteUrl" /\ arg.nameRc = GIT_OK /\ lastRc = GIT_EINVALIDSPEC
  /\ outcome = "return" /\ result = <<>>

\* the queries that hold transient handles
Scoped == {"CountRange", "RemoteUrl", "GetRemote", "Head"}

\* the reference Head returns to its caller
HandedOver ==
  IF fn = "Head" /\ outcome = "return" THEN {result.handle} \cap Handles ELSE {}

\* C10: in CountRange, RemoteUrl, GetRemote and Head no handle is freed more
\* often than it was acquired nor acquired twice, and when the call has
\* ended, by return or by throw, every acquired handle was freed once,
\* except the one reference Head returns, which was not freed.
C10_HandlesReleased ==
  fn \in Scoped =>
    /\ \A h \in Handles : released[h] <= acquired[h] /\ acquired[h] <= 1
    /\ pc = "done" =>
         /\ guards = {}
         /\ Cardinality(HandedOver) <= 1
         /\ \A h \in Handles :
              IF h \in HandedOver
              THEN acquired[h] = 1 /\ released[h] = 0
              ELSE released[h] = acquired[h]

\* C10 witness: RemoteUrl returned a URL, having acquired and freed the
\* buffer of the remote's name and the remote.
C10_Witness ==
  /\ fn = "RemoteUrl" /\ pc = "done" /\ outcome = "return" /\ result # <<>>
  /\ acquired["remote"] = 1 /\ released["remote"] = 1
  /\ acquired["remote_name"] = 1 /\ released["remote_name"] = 1

====
